---- MODULE Spec2Model ----
(***************************************************************************)
(* Model of gmail-exporter.py: the credential bootstrap and its readiness  *)
(* string, the /readyz handler served by the waitress thread, the cached   *)
(* label resolution, and the refresh cycle with its per-label gauges,      *)
(* sender aggregation and thread-sender cache.                             *)
(***************************************************************************)
EXTENDS Integers, Sequences, FiniteSets, TLC

VARIABLES
    args,                 \* parsed configuration: labels, labelsSenderCount, daemonize
    isatty,               \* sys.stdout.isatty()
    clientSecretFile,     \* os.path.exists(args.clientSecretFile)
    stored,               \* what Storage(credentialsPath).get() yields
    authCodeFile,         \* os.path.exists(get_homedir_filepath('auth_code'))
    READINESS,            \* global READINESS
    GMAIL_CLIENT,         \* global GMAIL_CLIENT
    THREAD_SENDER_CACHE,  \* global THREAD_SENDER_CACHE: thread id -> sender
    gauge_collection,     \* global gauge_collection: name -> gauge
    labels_cache,         \* lru_cache(maxsize=1) of get_labels: <<>> or <<result>>
    pc,                   \* position of the main thread
    exit_status,          \* argument of sys.exit once raised, -1 before
    server,               \* the waitress thread t
    response,             \* last response of /readyz
    labels,               \* the sequence update_gauages_from_gmail iterates
    labelIdx,             \* position of the for loop over labels
    threads,              \* update_sender_gauges_for_label: enumerated threads
    threadIdx,            \* position of the for loop over threads
    senderCounts,         \* update_sender_gauges_for_label: senderCounts
    calls,                \* remote API calls issued by the latest main-thread step
    list_calls,           \* number of users().labels().list() calls so far
    cycleLog,             \* per label position of the running cycle: outcome of labels().get()
    gaugesSet,            \* names of the _total/_unread gauges set in the running cycle
    first_labels          \* what the first returning call of get_labels returned

vars == << args, isatty, clientSecretFile, stored, authCodeFile, READINESS,
           GMAIL_CLIENT, THREAD_SENDER_CACHE, gauge_collection, labels_cache,
           pc, exit_status, server, response, labels, labelIdx, threads,
           threadIdx, senderCounts, calls, list_calls, cycleLog, gaugesSet,
           first_labels >>

----------------------------------------------------------------------------
(* Bounds of the model *)

MaxCount == 1         \* largest threadsTotal / threadsUnread a label reports
MaxPages == 2         \* longest chain of threads().list() pages
MaxListCalls == 2     \* cap of the list_calls counter

LabelIds == {"L1", "L2", "L3"}
LabelNames == {"Work", "Renamed"}

\* display names labels().get() can report for a label: L3 is the label that
\* is renamed in the mailbox while the exporter runs
NamesOf(id) == IF id = "L3" THEN LabelNames ELSE {"Work"}
ThreadIds == {"t1", "t2"}

RECURSIVE SeqsUpTo(_, _)
SeqsUpTo(S, n) ==
    IF n = 0 THEN {<<>>}
    ELSE LET shorter == SeqsUpTo(S, n - 1)
         IN  shorter \cup {Append(s, x) : s \in {q \in shorter : Len(q) = n - 1}, x \in S}

Counts == 0..MaxCount

\* label lists users().labels().list() can answer with
DiscoveredLabels == { <<>>, << "L1" >>, << "L2" >>, << "L1", "L2" >>, << "L2", "L1" >> }

\* configurations explored with every way through the credential bootstrap
BootArgs ==
    { [labels |-> << "L1" >>, labelsSenderCount |-> {}, daemonize |-> d] : d \in BOOLEAN }

\* configurations explored with stored credentials
RefreshArgs ==
    { [labels |-> <<>>, labelsSenderCount |-> {}, daemonize |-> TRUE],
      [labels |-> <<>>, labelsSenderCount |-> {"L1"}, daemonize |-> FALSE],
      [labels |-> << "L1", "L2" >>, labelsSenderCount |-> {"L1"}, daemonize |-> TRUE],
      [labels |-> << "L1", "L2" >>, labelsSenderCount |-> {"L1", "L2"}, daemonize |-> FALSE],
      [labels |-> << "L3", "L3" >>, labelsSenderCount |-> {}, daemonize |-> TRUE],
      [labels |-> << "L1" >>, labelsSenderCount |-> {"L2"}, daemonize |-> FALSE] }

EmptyMap == [x \in {} |-> 0]

----------------------------------------------------------------------------
(* The readiness string and the health endpoint *)

WAIT_SECRET == "Waiting for client secret file"
WAIT_CODE == "Waiting for auth code"

\* readyz() that forgets the 503 status of the blocked answer
readyzAlwaysOk(r) ==
    [status |-> 200, body |-> IF r = "" THEN "OK" ELSE r]

\* readyz(): "OK" (status 200) when READINESS is "", else Response(READINESS, 503)
readyz(r) ==
    IF r = "" THEN [status |-> 200, body |-> "OK"]
    ELSE [status |-> 503, body |-> r]

----------------------------------------------------------------------------
(* Remote mailbox API: what the calls can answer *)

NO_MESSAGES == "unknown-thread-no-messages"
NO_FROM == "unknown-no-from"

Header(n, v) == [name |-> n, value |-> v]
Message(hs) == [headers |-> hs]

\* message sequences a threads().get() can carry in 'messages'
MessageLists ==
    { <<>>,
      << Message(<< Header("Subject", "bob") >>),
         Message(<< Header("From", "bob") >>) >>,
      << Message(<< Header("Subject", "bob"), Header("From", "alice") >>) >>,
      << Message(<< Header("from", "bob"), Header("From", "alice"), Header("From", "bob") >>),
         Message(<< Header("From", "bob") >>) >> }

\* answers of threads().get(): the call raises, the answer has no 'messages'
\* key, 'messages' is null, or 'messages' is a list
ThreadGetResponses ==
    { [kind |-> k, messages |-> <<>>] : k \in {"error", "absent", "null"} }
    \cup { [kind |-> "list", messages |-> m] : m \in MessageLists }

NoRes == [kind |-> "n/a", messages |-> <<>>]
Call(op, id, page, res) ==
    [op |-> op, id |-> id, page |-> page, res |-> res, threads |-> <<>>, next |-> FALSE]

\* a threads().list() request for page i of a label and what it was answered:
\* the threads of the page and whether a nextPageToken came with it
PageCall(labelId, i, page, hasNext) ==
    [op |-> "threads.list", id |-> labelId, page |-> i,
     res |-> [kind |-> page.kind, messages |-> <<>>],
     threads |-> page.threads, next |-> hasNext /\ page.kind # "error"]

\* answers of one threads().list() page: the call raises, the page has no
\* 'threads' key, or it lists threads
Pages ==
    { [kind |-> k, threads |-> <<>>] : k \in {"error", "absent"} }
    \cup { [kind |-> "threads", threads |-> << t >>] : t \in ThreadIds }

\* chains of pages: page i carries a nextPageToken iff it is not the last
PageChains == SeqsUpTo(Pages, MaxPages) \ {<<>>}

\* answers of labels().get(id)
LabelInfos(id) ==
    { i \in [id : {id}, name : NamesOf(id), threadsTotal : Counts, threadsUnread : Counts] :
         i.threadsUnread <= i.threadsTotal }

----------------------------------------------------------------------------
(* Metric registry: get_gauge_for_label and Gauge.set *)

\* Gauge(...): a gauge without label dimensions starts with the sample 0
NewGauge(desc, labelnames) ==
    [desc |-> desc, labelnames |-> labelnames,
     samples |-> IF labelnames = <<>> THEN (<<>> :> 0) ELSE [x \in {} |-> 0]]

\* a registry that builds a gauge at every call
get_gauge_always_new(coll, name, desc, labelnames) ==
    [n \in (DOMAIN coll) \cup {name} |->
        IF n = name THEN NewGauge(desc, labelnames) ELSE coll[n]]

\* get_gauge_for_label(name, desc, labels): the registry after the call
get_gauge_for_label(coll, name, desc, labelnames) ==
    IF name \notin DOMAIN coll
    THEN coll @@ (name :> NewGauge(desc, labelnames))
    ELSE coll

\* gauge.inc(v) in the place of gauge.set(v)
GaugeInc(old, v) == old + v

\* gauge.set(v): the value replaces the old one
GaugeSet(old, v) == v

\* g.labels(...).set(v) on the gauge registered as name (no labels: lv = <<>>)
SetGauge(coll, name, lv, v) ==
    LET g == coll[name]
        old == IF lv \in DOMAIN g.samples THEN g.samples[lv] ELSE 0
        new == [x \in (DOMAIN g.samples) \cup {lv} |->
                   IF x = lv THEN GaugeSet(old, v) ELSE g.samples[x]]
    IN  [coll EXCEPT ![name] = [g EXCEPT !.samples = new]]

TotalName(id) == << id, "_total" >>
UnreadName(id) == << id, "_unread" >>
SenderName(id) == << id, "_sender" >>

\* update_gauages_from_gmail, the two gauges of a fetched label
SetLabelGauges(coll, info) ==
    LET c1 == get_gauge_for_label(coll, TotalName(info.id), << info.name, " Total" >>, <<>>)
        c2 == SetGauge(c1, TotalName(info.id), <<>>, info.threadsTotal)
        c3 == get_gauge_for_label(c2, UnreadName(info.id), << info.name, " Unread" >>, <<>>)
    IN  SetGauge(c3, UnreadName(info.id), <<>>, info.threadsUnread)

----------------------------------------------------------------------------
(* Sender aggregation helpers *)

RECURSIVE FromHeaderAnyCase(_, _)
\* a header scan that also takes the lower-case name
FromHeaderAnyCase(hs, i) ==
    IF i > Len(hs) THEN NO_FROM
    ELSE IF hs[i].name \in {"From", "from"} THEN hs[i].value
    ELSE FromHeaderAnyCase(hs, i + 1)

RECURSIVE FromHeader(_, _)
\* the for loop over firstMessage['payload']['headers']
FromHeader(hs, i) ==
    IF i > Len(hs) THEN NO_FROM
    ELSE IF hs[i].name = "From" THEN hs[i].value
    ELSE FromHeader(hs, i + 1)

\* get_first_message_sender(thread): thread['messages'] is None gives the
\* sentinel; thread['messages'][0] raises IndexError on an empty list
get_first_message_sender(thread) ==
    IF thread.messages.isNone
    THEN [exc |-> "none", value |-> NO_MESSAGES]
    ELSE IF Len(thread.messages.items) = 0
    THEN [exc |-> "IndexError", value |-> ""]
    ELSE [exc |-> "none", value |-> FromHeader(thread.messages.items[1].headers, 1)]

\* get_thread_messages(thread): thread['messages'] = res['messages']
get_thread_messages(tid, res) ==
    IF res.kind = "error"
    THEN [exc |-> "HttpError", thread |-> [id |-> tid, messages |-> [isNone |-> TRUE, items |-> <<>>]]]
    ELSE IF res.kind = "absent"
    THEN [exc |-> "KeyError", thread |-> [id |-> tid, messages |-> [isNone |-> TRUE, items |-> <<>>]]]
    ELSE [exc |-> "none",
          thread |-> [id |-> tid,
                      messages |-> [isNone |-> res.kind = "null", items |-> res.messages]]]

RECURSIVE MorePages(_, _, _, _, _)
\* the while "nextPageToken" in response loop: page i has been read
MorePages(labelId, chain, i, acc, cs) ==
    IF i >= Len(chain)
    THEN [exc |-> "none", threads |-> acc, calls |-> cs]
    ELSE LET page == chain[i + 1]
             cs2 == Append(cs, PageCall(labelId, i + 1, page, i + 1 < Len(chain)))
         IN  IF page.kind = "error"
             THEN [exc |-> "HttpError", threads |-> <<>>, calls |-> cs2]
             ELSE IF page.kind = "absent"
             THEN [exc |-> "KeyError", threads |-> <<>>, calls |-> cs2]
             ELSE MorePages(labelId, chain, i + 1, acc \o page.threads, cs2)

\* get_all_threads_for_label(labelId) against a chain of pages; the page
\* token of a request is modelled by the index of the page it asks for
get_all_threads_for_label(labelId, chain) ==
    LET first == chain[1]
        cs == << PageCall(labelId, 1, first, 1 < Len(chain)) >>
    IN  IF first.kind = "error"
        THEN [exc |-> "HttpError", threads |-> <<>>, calls |-> cs]
        ELSE MorePages(labelId, chain, 1,
                       IF first.kind = "threads" THEN first.threads ELSE <<>>, cs)

\* a membership test that never finds the thread
InCacheNever(cache, tid) == FALSE

\* thread['id'] not in THREAD_SENDER_CACHE, negated
InCache(cache, tid) == tid \in DOMAIN cache

\* a cache rebuilt around the entry written last
CacheWriteReset(cache, tid, sender) == (tid :> sender)

\* THREAD_SENDER_CACHE[thread['id']] = sender
CacheWrite(cache, tid, sender) ==
    [x \in (DOMAIN cache) \cup {tid} |-> IF x = tid THEN sender ELSE cache[x]]

\* senderCounts[sender] = 1 in the place of += 1
TallyOnce(counts, sender) ==
    [x \in (DOMAIN counts) \cup {sender} |-> IF x = sender THEN 1 ELSE counts[x]]

\* senderCounts[sender] += 1, after the default of 0
Tally(counts, sender) ==
    [x \in (DOMAIN counts) \cup {sender} |->
        IF x = sender THEN (IF sender \in DOMAIN counts THEN counts[sender] ELSE 0) + 1
        ELSE counts[x]]

\* a publication that clears the samples of the gauge before it sets them
PublishAllCleared(coll, labelId, counts, todo) ==
    IF todo = {} THEN coll
    ELSE LET c1 == get_gauge_for_label(coll, SenderName(labelId), << "Label sender info" >>, << "sender" >>)
         IN  [c1 EXCEPT ![SenderName(labelId)].samples =
                 [lv \in {<< x >> : x \in todo} |-> counts[lv[1]]]]

RECURSIVE PublishAll(_, _, _, _)
\* the for loop over senderCounts.items(): one sample per sender
PublishAll(coll, labelId, counts, todo) ==
    IF todo = {} THEN coll
    ELSE LET s == CHOOSE x \in todo : TRUE
             c1 == get_gauge_for_label(coll, SenderName(labelId), << "Label sender info" >>, << "sender" >>)
             c2 == SetGauge(c1, SenderName(labelId), << s >>, counts[s])
         IN  PublishAll(c2, labelId, counts, todo \ {s})

\* a sender aggregation that is run for every label
IsTrackedAlways(id, tracked) == TRUE

\* label['id'] in args.labelsSenderCount
IsTracked(id, tracked) == id \in tracked

\* get_labels without its lru_cache
CacheMiss(cache) == FALSE

\* the lru_cache of get_labels holds a result
CacheHit(cache) == Len(cache) > 0

\* an except clause around the whole for loop: the first failure ends it
OnLabelErrorAbort(idx, n) == n + 1

\* where the for loop over labels goes on after the except clause
OnLabelError(idx, n) == idx + 1

----------------------------------------------------------------------------

Init ==
    /\ \/ /\ args \in BootArgs
          /\ isatty \in BOOLEAN
          /\ clientSecretFile \in BOOLEAN
          /\ stored \in {"none", "invalid", "valid"}
          /\ authCodeFile \in BOOLEAN
       \/ /\ args \in RefreshArgs
          /\ isatty = FALSE
          /\ clientSecretFile = TRUE
          /\ stored = "valid"
          /\ authCodeFile = FALSE
    /\ READINESS = ""
    /\ GMAIL_CLIENT = "None"
    /\ THREAD_SENDER_CACHE = EmptyMap
    /\ gauge_collection = EmptyMap
    /\ labels_cache = <<>>
    /\ pc = "main"
    /\ exit_status = -1
    /\ server = "not_started"
    /\ response = [status |-> 0, body |-> ""]
    /\ labels = <<>>
    /\ labelIdx = 0
    /\ threads = <<>>
    /\ threadIdx = 0
    /\ senderCounts = EmptyMap
    /\ calls = <<>>
    /\ list_calls = 0
    /\ cycleLog = <<>>
    /\ gaugesSet = {}
    /\ first_labels = <<>>

envVars == << args, isatty, clientSecretFile, stored, authCodeFile >>
cycleVars == << THREAD_SENDER_CACHE, gauge_collection, labels_cache, labels,
                labelIdx, threads, threadIdx, senderCounts, calls, list_calls,
                cycleLog, gaugesSet, first_labels >>

\* a main() that refreshes before it has asked for the client
MainAfterStartRefresh == "refresh"

\* main(): what follows t.start() is GMAIL_CLIENT = get_gmail_client()
MainAfterStart == "get_credentials"

\* main(): t = Thread(target = start_waitress); t.start()
StartWaitress ==
    /\ pc = "main"
    /\ server' = "running"
    /\ pc' = MainAfterStart
    /\ UNCHANGED << envVars, READINESS, GMAIL_CLIENT, exit_status, response, cycleVars >>

\* the waitress thread answers a GET /readyz
ServeReadyz ==
    /\ server = "running"
    /\ response' = readyz(READINESS)
    /\ UNCHANGED << envVars, READINESS, GMAIL_CLIENT, pc, exit_status, server, cycleVars >>

----------------------------------------------------------------------------
(* Credential bootstrap: get_gmail_client, get_credentials, run_flow *)

\* get_credentials(), one turn of the while loop over a missing client secret
\* file: set_readiness("Waiting for client secret file"), then sleep(10)
WaitClientSecret ==
    /\ pc = "get_credentials"
    /\ ~clientSecretFile
    /\ READINESS' = WAIT_SECRET
    /\ UNCHANGED << envVars, GMAIL_CLIENT, pc, exit_status, server, response, cycleVars >>

\* get_credentials() once the client secret file exists: store.get(); valid
\* stored credentials are returned as they are (and get_gmail_client builds
\* the client from them), anything else enters run_flow
LoadCredentials ==
    /\ pc = "get_credentials"
    /\ clientSecretFile
    /\ IF stored = "valid"
       THEN /\ GMAIL_CLIENT' = "client"
            /\ pc' = "refresh"
       ELSE /\ GMAIL_CLIENT' = GMAIL_CLIENT
            /\ pc' = IF isatty THEN "input" ELSE "poll_code"
    /\ UNCHANGED << envVars, READINESS, exit_status, server, response, cycleVars >>

\* run_flow() on a terminal: code = input('Enter code:').strip()
EnterCode ==
    /\ pc = "input"
    /\ pc' = "exchange"
    /\ UNCHANGED << envVars, READINESS, GMAIL_CLIENT, exit_status, server, response, cycleVars >>

\* run_flow() without a terminal, one turn of the while True loop: the code
\* file is read when it exists and opens; otherwise
\* set_readiness("Waiting for auth code"), then sleep(10)
PollAuthCode ==
    /\ pc = "poll_code"
    /\ \E readable \in BOOLEAN :
          IF authCodeFile /\ readable
          THEN /\ pc' = "exchange"
               /\ READINESS' = READINESS
          ELSE /\ pc' = pc
               /\ READINESS' = WAIT_CODE
    /\ UNCHANGED << envVars, GMAIL_CLIENT, exit_status, server, response, cycleVars >>

\* run_flow(): flow.step2_exchange(code); FlowExchangeError -> sys.exit(1);
\* else set_readiness(""), store.put(credential), and the client is built
Exchange ==
    /\ pc = "exchange"
    /\ \E ok \in BOOLEAN :
          IF ok
          THEN /\ READINESS' = ""
               /\ stored' = "valid"
               /\ GMAIL_CLIENT' = "client"
               /\ pc' = "refresh"
               /\ exit_status' = exit_status
          ELSE /\ pc' = "SystemExit"
               /\ exit_status' = 1
               /\ UNCHANGED << READINESS, stored, GMAIL_CLIENT >>
    /\ UNCHANGED << args, isatty, clientSecretFile, authCodeFile, server, response, cycleVars >>

\* the operator downloads the client secret file from the API console
CreateClientSecretFile ==
    /\ ~clientSecretFile
    /\ clientSecretFile' = TRUE
    /\ UNCHANGED << args, isatty, stored, authCodeFile, READINESS, GMAIL_CLIENT,
                    pc, exit_status, server, response, cycleVars >>

\* the operator writes the authorization code to the auth_code file
CreateAuthCodeFile ==
    /\ ~authCodeFile
    /\ authCodeFile' = TRUE
    /\ UNCHANGED << args, isatty, clientSecretFile, stored, READINESS, GMAIL_CLIENT,
                    pc, exit_status, server, response, cycleVars >>

----------------------------------------------------------------------------
(* Refresh cycle: update_gauages_from_gmail and what it calls *)

outsideCycle == << envVars, READINESS, GMAIL_CLIENT, server, response >>

insideLoop == << envVars, GMAIL_CLIENT, server, response >>

\* an except clause that reports the failure through the readiness string
LabelFailedBlocks(e) ==
    /\ e # "none"
    /\ READINESS' = e
    /\ gauge_collection' = gauge_collection
    /\ labelIdx' = OnLabelError(labelIdx, Len(labels))
    /\ pc' = "label"
    /\ threads' = <<>>
    /\ threadIdx' = 0
    /\ senderCounts' = EmptyMap

\* an except clause that publishes the senders tallied before the failure
LabelFailedPublishes(e) ==
    /\ e # "none"
    /\ READINESS' = READINESS
    /\ gauge_collection' =
          PublishAll(gauge_collection, labels[labelIdx], senderCounts, DOMAIN senderCounts)
    /\ labelIdx' = OnLabelError(labelIdx, Len(labels))
    /\ pc' = "label"
    /\ threads' = <<>>
    /\ threadIdx' = 0
    /\ senderCounts' = EmptyMap

\* the except clause of the for loop over labels: log, go on; neither the
\* readiness string nor a gauge is touched
LabelFailed(e) ==
    /\ e # "none"
    /\ READINESS' = READINESS
    /\ gauge_collection' = gauge_collection
    /\ labelIdx' = OnLabelError(labelIdx, Len(labels))
    /\ pc' = "label"
    /\ threads' = <<>>
    /\ threadIdx' = 0
    /\ senderCounts' = EmptyMap

\* the body of the for loop over labels ended without an exception
LabelDone ==
    /\ labelIdx' = labelIdx + 1
    /\ pc' = "label"
    /\ threads' = <<>>
    /\ threadIdx' = 0
    /\ senderCounts' = EmptyMap

\* get_labels() returned result to the for loop of update_gauages_from_gmail
EnterLoop(result) ==
    /\ labels' = result
    /\ first_labels' = IF first_labels = <<>> THEN result ELSE first_labels
    /\ labelIdx' = 1
    /\ pc' = "label"
    /\ exit_status' = exit_status
    /\ cycleLog' = <<>>
    /\ gaugesSet' = {}

\* update_gauages_from_gmail() up to the for loop: get_labels(), which is
\* answered from the lru_cache, or lists the labels remotely (an exception of
\* the call ends the main thread; no labels: sys.exit()), or takes args.labels
StartCycle ==
    /\ pc = "refresh"
    /\ IF CacheHit(labels_cache)
       THEN /\ EnterLoop(labels_cache[1])
            /\ calls' = <<>>
            /\ UNCHANGED << labels_cache, list_calls >>
       ELSE IF Len(args.labels) = 0
       THEN /\ list_calls < MaxListCalls
            /\ list_calls' = list_calls + 1
            /\ calls' = << Call("labels.list", "", 0, NoRes) >>
            /\ \E raised \in BOOLEAN, result \in DiscoveredLabels :
                  IF raised
                  THEN /\ pc' = "crashed"
                       /\ UNCHANGED << labels_cache, labels, first_labels, labelIdx,
                                       exit_status, cycleLog, gaugesSet >>
                  ELSE IF result = <<>>
                  THEN /\ pc' = "SystemExit"
                       /\ exit_status' = 0
                       /\ UNCHANGED << labels_cache, labels, first_labels, labelIdx,
                                       cycleLog, gaugesSet >>
                  ELSE /\ labels_cache' = << result >>
                       /\ EnterLoop(result)
       ELSE /\ labels_cache' = << args.labels >>
            /\ EnterLoop(args.labels)
            /\ calls' = <<>>
            /\ list_calls' = list_calls
    /\ UNCHANGED << outsideCycle, THREAD_SENDER_CACHE, gauge_collection, threads,
                    threadIdx, senderCounts >>

\* one turn of the for loop over labels, up to the sender aggregation:
\* labels().get(), the _total and _unread gauges, the labelsSenderCount test
GetLabel ==
    /\ pc = "label"
    /\ labelIdx <= Len(labels)
    /\ LET id == labels[labelIdx] IN
       /\ calls' = << Call("labels.get", id, 0, NoRes) >>
       /\ \/ /\ cycleLog' = Append(cycleLog, [ok |-> FALSE, id |-> id, name |-> "",
                                              threadsTotal |-> 0, threadsUnread |-> 0])
             /\ LabelFailed("HttpError")
             /\ UNCHANGED gaugesSet
          \/ \E info \in LabelInfos(id) :
                /\ cycleLog' = Append(cycleLog, [ok |-> TRUE, id |-> info.id, name |-> info.name,
                                                 threadsTotal |-> info.threadsTotal,
                                                 threadsUnread |-> info.threadsUnread])
                /\ gauge_collection' = SetLabelGauges(gauge_collection, info)
                /\ gaugesSet' = gaugesSet \cup {TotalName(info.id), UnreadName(info.id)}
                /\ READINESS' = READINESS
                /\ IF IsTracked(id, args.labelsSenderCount)
                   THEN /\ pc' = "list_threads"
                        /\ UNCHANGED << labelIdx, threads, threadIdx, senderCounts >>
                   ELSE LabelDone
    /\ UNCHANGED << insideLoop, exit_status, THREAD_SENDER_CACHE, labels_cache, labels,
                    list_calls, first_labels >>

\* update_sender_gauges_for_label(): get_all_threads_for_label(label)
ListThreads ==
    /\ pc = "list_threads"
    /\ \E chain \in PageChains :
          LET r == get_all_threads_for_label(labels[labelIdx], chain) IN
          /\ calls' = r.calls
          /\ IF r.exc # "none"
             THEN LabelFailed(r.exc)
             ELSE /\ threads' = r.threads
                  /\ threadIdx' = 1
                  /\ senderCounts' = EmptyMap
                  /\ pc' = "thread"
                  /\ UNCHANGED << labelIdx, READINESS, gauge_collection >>
    /\ UNCHANGED << insideLoop, exit_status, THREAD_SENDER_CACHE,
                    labels_cache, labels, list_calls, cycleLog, gaugesSet, first_labels >>

\* one turn of the for loop over the threads: a thread that is not in the
\* cache is fetched and its sender resolved and cached; the sender is tallied
ProcessThread ==
    /\ pc = "thread"
    /\ threadIdx <= Len(threads)
    /\ LET tid == threads[threadIdx] IN
       IF InCache(THREAD_SENDER_CACHE, tid)
       THEN /\ calls' = <<>>
            /\ senderCounts' = Tally(senderCounts, THREAD_SENDER_CACHE[tid])
            /\ threadIdx' = threadIdx + 1
            /\ UNCHANGED << THREAD_SENDER_CACHE, pc, labelIdx, threads, READINESS,
                            gauge_collection >>
       ELSE \E res \in ThreadGetResponses :
               LET got == get_thread_messages(tid, res)
                   who == get_first_message_sender(got.thread)
               IN  /\ calls' = << Call("threads.get", tid, 0, res) >>
                   /\ IF got.exc # "none"
                      THEN /\ LabelFailed(got.exc)
                           /\ UNCHANGED THREAD_SENDER_CACHE
                      ELSE IF who.exc # "none"
                      THEN /\ LabelFailed(who.exc)
                           /\ UNCHANGED THREAD_SENDER_CACHE
                      ELSE /\ THREAD_SENDER_CACHE' = CacheWrite(THREAD_SENDER_CACHE, tid, who.value)
                           /\ senderCounts' = Tally(senderCounts, THREAD_SENDER_CACHE'[tid])
                           /\ threadIdx' = threadIdx + 1
                           /\ UNCHANGED << pc, labelIdx, threads, READINESS,
                                           gauge_collection >>
    /\ UNCHANGED << insideLoop, exit_status, labels_cache, labels,
                    list_calls, cycleLog, gaugesSet, first_labels >>

\* update_sender_gauges_for_label(), the for loop over senderCounts.items()
PublishSenders ==
    /\ pc = "thread"
    /\ threadIdx > Len(threads)
    /\ gauge_collection' =
          PublishAll(gauge_collection, labels[labelIdx], senderCounts, DOMAIN senderCounts)
    /\ gaugesSet' = gaugesSet \cup
          (IF DOMAIN senderCounts = {} THEN {} ELSE {SenderName(labels[labelIdx])})
    /\ calls' = <<>>
    /\ LabelDone
    /\ UNCHANGED << outsideCycle, exit_status, THREAD_SENDER_CACHE, labels_cache, labels,
                    list_calls, cycleLog, first_labels >>

\* the for loop over labels is over: update_gauages_from_gmail returns, to
\* sleep(args.updateDelaySeconds) in infinate_update_loop or to t.join()
EndCycle ==
    /\ pc = "label"
    /\ labelIdx > Len(labels)
    /\ pc' = IF args.daemonize THEN "sleep" ELSE "join"
    /\ labelIdx' = 0
    /\ calls' = <<>>
    /\ UNCHANGED << outsideCycle, exit_status, THREAD_SENDER_CACHE, gauge_collection,
                    labels_cache, labels, threads, threadIdx, senderCounts, list_calls,
                    cycleLog, gaugesSet, first_labels >>

\* infinate_update_loop(): the sleep is over, the while True loop turns
Sleep ==
    /\ pc = "sleep"
    /\ pc' = "refresh"
    /\ UNCHANGED << outsideCycle, exit_status, THREAD_SENDER_CACHE, gauge_collection,
                    labels_cache, labels, labelIdx, threads, threadIdx, senderCounts,
                    calls, list_calls, cycleLog, gaugesSet, first_labels >>

Next ==
    \/ StartWaitress
    \/ ServeReadyz
    \/ WaitClientSecret
    \/ LoadCredentials
    \/ EnterCode
    \/ PollAuthCode
    \/ Exchange
    \/ CreateClientSecretFile
    \/ CreateAuthCodeFile
    \/ StartCycle
    \/ GetLabel
    \/ ListThreads
    \/ ProcessThread
    \/ PublishSenders
    \/ EndCycle
    \/ Sleep

Spec == Init /\ [][Next]_vars

----------------------------------------------------------------------------
(* Properties *)

Value(name) == gauge_collection[name].samples[<<>>]
CycleOver == pc \in {"sleep", "join"}

\* C1: once the credential provider has returned credentials (the client is
\* built from them), the readiness string is "".
C1_ReadyOnceCredentialed ==
    GMAIL_CLIENT = "client" => READINESS = ""

\* C2: while the serving thread runs and credentials are not yet obtained
\* (client secret file absent, or authorization pending), the readiness
\* string is non-empty.
C2_BlockedBeforeCredentials ==
    ( /\ server = "running"
      /\ \/ pc = "get_credentials" /\ ~clientSecretFile
         \/ pc \in {"input", "poll_code", "exchange"} )
    => READINESS # ""

\* C3 as stated: /readyz answers 200 with an empty body when the readiness
\* string is "", and 503 with the readiness string as body otherwise.
C3_EmptyBodyWhenReady ==
    [][ ServeReadyz =>
          response' = IF READINESS = ""
                      THEN [status |-> 200, body |-> ""]
                      ELSE [status |-> 503, body |-> READINESS] ]_vars

\* C3 amended: /readyz answers 200 with the body "OK" when the readiness
\* string is "", and 503 with the readiness string as body otherwise.
C3_ReadyzContract ==
    [][ ServeReadyz =>
          response' = IF READINESS = ""
                      THEN [status |-> 200, body |-> "OK"]
                      ELSE [status |-> 503, body |-> READINESS] ]_vars

\* /readyz has answered a process that holds its client
C3_Witness ==
    /\ response = [status |-> 200, body |-> "OK"]
    /\ READINESS = ""
    /\ GMAIL_CLIENT = "client"

\* C4: when a refresh cycle is over, every label position of the resolved
\* label set has been attempted, whichever of them failed, and every label
\* whose metadata fetch succeeded had its _total and _unread gauges set in
\* that cycle.
C4_LabelFailureIsolated ==
    CycleOver =>
       /\ Len(cycleLog) = Len(labels)
       /\ \A i \in 1..Len(cycleLog) :
             /\ cycleLog[i].id = labels[i]
             /\ cycleLog[i].ok =>
                   /\ {TotalName(labels[i]), UnreadName(labels[i])} \subseteq gaugesSet
                   /\ gaugesSet \subseteq DOMAIN gauge_collection

C4_Witness ==
    /\ CycleOver
    /\ labels = << "L1", "L2" >>
    /\ Len(cycleLog) = 2
    /\ ~cycleLog[1].ok
    /\ cycleLog[2].ok
    /\ gaugesSet = {TotalName("L2"), UnreadName("L2")}
    /\ calls = <<>>

\* C5: for every label whose metadata fetch succeeded in the latest cycle,
\* the _total and _unread gauges hold the counts the latest successful fetch
\* of that cycle returned.
C5_GaugesOverwritten ==
    \A i \in 1..Len(cycleLog) :
       ( /\ cycleLog[i].ok
         /\ \A j \in (i + 1)..Len(cycleLog) :
               ~(cycleLog[j].ok /\ cycleLog[j].id = cycleLog[i].id) )
       => /\ Value(TotalName(cycleLog[i].id)) = cycleLog[i].threadsTotal
          /\ Value(UnreadName(cycleLog[i].id)) = cycleLog[i].threadsUnread

\* a later cycle (the L2 gauges are there before L2 is reached) has fetched L1
C5_Witness ==
    /\ pc = "label"
    /\ labels = << "L1", "L2" >>
    /\ labelIdx = 2
    /\ TotalName("L2") \in DOMAIN gauge_collection
    /\ Value(TotalName("L2")) = 1
    /\ Len(cycleLog) = 1
    /\ cycleLog[1].ok
    /\ cycleLog[1].threadsTotal = 0
    /\ Value(TotalName("L1")) = 0

\* C6: users().labels().list() is called at most once, and every call of
\* get_labels returns what its first returning call returned.
C6_LabelsResolvedOnce ==
    /\ list_calls <= 1
    /\ labels = first_labels

\* a second cycle of a process that discovered its labels
C6_Witness ==
    /\ Len(args.labels) = 0
    /\ list_calls = 1
    /\ pc = "label"
    /\ labelIdx = 1
    /\ cycleLog = <<>>
    /\ labels = << "L2", "L1" >>
    /\ TotalName("L1") \in DOMAIN gauge_collection

\* C7: when no labels are configured and the discovery finds none, no thread
\* of the process keeps running and no per-label step was executed.
C7_NoLabelsTerminates ==
    (pc = "SystemExit" /\ exit_status = 0)
    => /\ server # "running"
       /\ gauge_collection = EmptyMap
       /\ cycleLog = <<>>

\* C8: an entry of the thread-sender cache is never removed and never changed.
C8_CacheWriteOnce ==
    [][ \A t \in DOMAIN THREAD_SENDER_CACHE :
           /\ t \in DOMAIN THREAD_SENDER_CACHE'
           /\ THREAD_SENDER_CACHE'[t] = THREAD_SENDER_CACHE[t] ]_vars

\* both threads are cached and the cached t1 has been met again
C8_Witness ==
    /\ DOMAIN THREAD_SENDER_CACHE = ThreadIds
    /\ THREAD_SENDER_CACHE["t1"] = "alice"
    /\ THREAD_SENDER_CACHE["t2"] = NO_FROM
    /\ pc = "thread"
    /\ threadIdx = 2
    /\ threads[1] = "t1"
    /\ calls = <<>>

\* C9: a turn of the thread loop over a thread that is in the cache issues no
\* remote call and tallies the thread under its cached sender.
C9_CacheHitNoFetch ==
    [][ ( /\ pc = "thread"
          /\ threadIdx <= Len(threads)
          /\ threads[threadIdx] \in DOMAIN THREAD_SENDER_CACHE
          /\ threadIdx' # threadIdx )
        => LET sender == THREAD_SENDER_CACHE[threads[threadIdx]] IN
           /\ calls' = <<>>
           /\ pc' = "thread"
           /\ threadIdx' = threadIdx + 1
           /\ sender \in DOMAIN senderCounts'
           /\ senderCounts'[sender] =
                 (IF sender \in DOMAIN senderCounts THEN senderCounts[sender] ELSE 0) + 1
           /\ \A x \in DOMAIN senderCounts' \ {sender} :
                 x \in DOMAIN senderCounts /\ senderCounts'[x] = senderCounts[x] ]_vars

\* t1, attributed under L1, has been met under L2 and tallied from the cache
C9_Witness ==
    /\ pc = "thread"
    /\ labels = << "L1", "L2" >>
    /\ labelIdx = 2
    /\ threadIdx = 2
    /\ threads[1] = "t1"
    /\ calls = <<>>
    /\ SenderName("L1") \in DOMAIN gauge_collection
    /\ << "alice" >> \in DOMAIN gauge_collection[SenderName("L1")].samples
    /\ senderCounts = ("alice" :> 1)

\* C10: a thread that is not in the cache and whose fetched answer has no
\* messages (the list is empty, null or absent) is cached and tallied as
\* "unknown-thread-no-messages", and the thread loop goes on.
C10_NoMessagesSentinel ==
    [][ ( /\ pc = "thread"
          /\ threadIdx <= Len(threads)
          /\ threads[threadIdx] \notin DOMAIN THREAD_SENDER_CACHE
          /\ calls' # calls
          /\ Len(calls') = 1
          /\ calls'[1].op = "threads.get"
          /\ calls'[1].res.kind \in {"absent", "null", "list"}
          /\ Len(calls'[1].res.messages) = 0 )
        => /\ threads[threadIdx] \in DOMAIN THREAD_SENDER_CACHE'
           /\ THREAD_SENDER_CACHE'[threads[threadIdx]] = NO_MESSAGES
           /\ NO_MESSAGES \in DOMAIN senderCounts'
           /\ pc' = "thread"
           /\ threadIdx' = threadIdx + 1 ]_vars

\* the value of the first header named exactly "From" among hs, if any
FirstFrom(hs) ==
    LET at == {i \in 1..Len(hs) : hs[i].name = "From"} IN
    IF at = {} THEN NO_FROM
    ELSE hs[CHOOSE i \in at : \A j \in at : i <= j].value

\* C11: a thread fetched with at least one message is cached under the value
\* of the first header named exactly "From" of its first message, and under
\* "unknown-no-from" when the first message has none; later messages and
\* other headers do not count.
C11_SenderFromFirstMessage ==
    [][ ( /\ pc = "thread"
          /\ threadIdx <= Len(threads)
          /\ threads[threadIdx] \notin DOMAIN THREAD_SENDER_CACHE
          /\ calls' # calls
          /\ Len(calls') = 1
          /\ calls'[1].op = "threads.get"
          /\ calls'[1].res.kind = "list"
          /\ Len(calls'[1].res.messages) > 0 )
        => /\ threads[threadIdx] \in DOMAIN THREAD_SENDER_CACHE'
           /\ THREAD_SENDER_CACHE'[threads[threadIdx]] =
                 FirstFrom(calls'[1].res.messages[1].headers) ]_vars

\* a thread whose first message has "from" before two "From" headers, and
\* whose second message is from bob, is cached under alice
C11_Witness ==
    /\ pc = "thread"
    /\ Len(calls) = 1
    /\ calls[1].op = "threads.get"
    /\ calls[1].res.kind = "list"
    /\ Len(calls[1].res.messages) = 2
    /\ Len(calls[1].res.messages[1].headers) = 3
    /\ calls[1].id \in DOMAIN THREAD_SENDER_CACHE
    /\ THREAD_SENDER_CACHE[calls[1].id] = "alice"

RECURSIVE ListedThreads(_, _)
\* the threads of the pages cs[i], cs[i+1], ... one after the other
ListedThreads(cs, i) ==
    IF i > Len(cs) THEN <<>> ELSE cs[i].threads \o ListedThreads(cs, i + 1)

\* C12: when no threads().list() call raises, the enumeration asks for the
\* pages in chain order, each once, stops at the page without a token, and
\* returns the threads of the pages one after the other.
C12_PagesConcatenated ==
    [][ ( /\ pc = "list_threads"
          /\ calls' # calls
          /\ \A i \in 1..Len(calls') : calls'[i].res.kind # "error" )
        => /\ Len(calls') >= 1
           /\ \A i \in 1..Len(calls') :
                 /\ calls'[i].op = "threads.list"
                 /\ calls'[i].page = i
                 /\ calls'[i].next = (i < Len(calls'))
           /\ pc' = "thread"
           /\ threads' = ListedThreads(calls', 1) ]_vars

\* C13: a gauge, once registered under a name, stays registered under it as
\* it was created: later calls for the name, whatever description or label
\* dimensions they pass, build no new gauge.
C13_RegistryIdempotent ==
    [][ \A n \in DOMAIN gauge_collection :
           /\ n \in DOMAIN gauge_collection'
           /\ gauge_collection'[n].desc = gauge_collection[n].desc
           /\ gauge_collection'[n].labelnames = gauge_collection[n].labelnames ]_vars

\* the latest call for L3_total passed the new name; the gauge has the old
C13_Witness ==
    /\ Len(cycleLog) >= 1
    /\ cycleLog[1].ok
    /\ cycleLog[1].id = "L3"
    /\ cycleLog[1].name = "Renamed"
    /\ gauge_collection[TotalName("L3")].desc = << "Work", " Total" >>
    /\ Value(TotalName("L3")) = cycleLog[1].threadsTotal

InCycle == pc \in {"refresh", "label", "list_threads", "thread", "sleep"}

\* C14: in daemon mode, once the client is built, the main thread stays in
\* the loop of refresh cycle and sleep, whatever the remote calls raised: the
\* loop never ends (but for the exit on a discovery that finds no label), so
\* that another cycle always follows.
C14_DaemonLoopNeverEnds ==
    (args.daemonize /\ GMAIL_CLIENT = "client")
    => (InCycle \/ (pc = "SystemExit" /\ exit_status = 0))

\* C15: no step of a refresh cycle changes the readiness string; it changes
\* in the credential bootstrap only.
C15_ReadinessFrame ==
    [][ /\ InCycle => READINESS' = READINESS
        /\ READINESS' # READINESS => pc \in {"get_credentials", "poll_code", "exchange"} ]_vars

\* a message fetch gave no 'messages' key, the label was given up, and the
\* readiness string is as it was: /readyz still answers 200
C15_Witness ==
    /\ pc = "label"
    /\ Len(calls) = 1
    /\ calls[1].op = "threads.get"
    /\ calls[1].res.kind = "absent"
    /\ READINESS = ""
    /\ response.status = 200

\* C16: thread listing and message fetching run under labels of the resolved
\* label set that are in args.labelsSenderCount, and under no other label.
C16_AggregationOnlyIfTracked ==
    /\ pc \in {"list_threads", "thread"} =>
          labels[labelIdx] \in args.labelsSenderCount
    /\ \A i \in 1..Len(calls) :
          /\ calls[i].op = "threads.list" =>
                /\ calls[i].id \in args.labelsSenderCount
                /\ \E j \in 1..Len(labels) : labels[j] = calls[i].id
          /\ (calls[i].op = "threads.get" /\ pc = "label") =>
                /\ labelIdx > 1
                /\ labels[labelIdx - 1] \in args.labelsSenderCount

\* L1 has been aggregated, L2 of the same cycle has not
C16_Witness ==
    /\ CycleOver
    /\ labels = << "L1", "L2" >>
    /\ args.labelsSenderCount = {"L1"}
    /\ Len(cycleLog) = 2
    /\ cycleLog[1].ok
    /\ cycleLog[2].ok
    /\ SenderName("L1") \in gaugesSet
    /\ SenderName("L2") \notin DOMAIN gauge_collection

PublishStep == pc = "thread" /\ threadIdx > Len(threads) /\ pc' = "label"
SendersSeen == {THREAD_SENDER_CACHE[threads[i]] : i \in 1..Len(threads)}
ThreadsOf(s) == {i \in 1..Len(threads) : THREAD_SENDER_CACHE[threads[i]] = s}

RECURSIVE SumOf(_, _)
SumOf(f, S) ==
    IF S = {} THEN 0
    ELSE LET x == CHOOSE y \in S : TRUE IN f[x] + SumOf(f, S \ {x})

\* C17: the publication that ends an aggregation sets, for every sender of an
\* enumerated thread, the (label, sender) sample to the number of enumerated
\* threads cached under that sender; the samples set sum to the number of
\* enumerated threads.
C17_SenderTally ==
    [][ PublishStep =>
          LET name == SenderName(labels[labelIdx]) IN
          /\ \A i \in 1..Len(threads) : threads[i] \in DOMAIN THREAD_SENDER_CACHE
          /\ SendersSeen # {} =>
                /\ name \in DOMAIN gauge_collection'
                /\ \A s \in SendersSeen :
                      /\ << s >> \in DOMAIN gauge_collection'[name].samples
                      /\ gauge_collection'[name].samples[<< s >>] = Cardinality(ThreadsOf(s))
                /\ SumOf(gauge_collection'[name].samples, {<< s >> : s \in SendersSeen})
                      = Len(threads) ]_vars

\* two enumerated threads of L1 were counted under alice
C17_Witness ==
    /\ pc = "label"
    /\ labelIdx = 2
    /\ labels[1] = "L1"
    /\ calls = <<>>
    /\ SenderName("L1") \in gaugesSet
    /\ gauge_collection[SenderName("L1")].samples = (<< "alice" >> :> 2)

\* C18: a (label, sender) sample is never removed, and it changes only in the
\* publication of its label, and only if its sender was tallied there.
C18_StaleSendersKept ==
    [][ \A l \in LabelIds :
           SenderName(l) \in DOMAIN gauge_collection =>
              /\ SenderName(l) \in DOMAIN gauge_collection'
              /\ \A lv \in DOMAIN gauge_collection[SenderName(l)].samples :
                    /\ lv \in DOMAIN gauge_collection'[SenderName(l)].samples
                    /\ gauge_collection'[SenderName(l)].samples[lv]
                          # gauge_collection[SenderName(l)].samples[lv]
                       => /\ PublishStep
                          /\ labels[labelIdx] = l
                          /\ lv[1] \in DOMAIN senderCounts ]_vars

\* alice keeps her sample of an earlier cycle; the latest enumeration had
\* thread t2 only
C18_Witness ==
    /\ pc = "label"
    /\ SenderName("L1") \in gaugesSet
    /\ THREAD_SENDER_CACHE = ("t1" :> "alice" @@ "t2" :> NO_FROM)
    /\ gauge_collection[SenderName("L1")].samples
          = (<< "alice" >> :> 1 @@ << NO_FROM >> :> 2)

\* C19: the serving thread runs from the moment the credential provider is
\* called, and no refresh cycle, remote mailbox call or gauge exists before
\* the client is built.
C19_StartupOrder ==
    /\ pc # "main" => server = "running"
    /\ ( \/ InCycle
         \/ pc \in {"join", "crashed"}
         \/ calls # <<>>
         \/ list_calls > 0
         \/ DOMAIN gauge_collection # {} )
       => GMAIL_CLIENT = "client"

\* /readyz has been served while the authorization is polled for
C19_Witness ==
    /\ pc = "poll_code"
    /\ server = "running"
    /\ response.status = 503
    /\ GMAIL_CLIENT = "None"
    /\ calls = <<>>
    /\ labels = <<>>

\* C20: a step of a sender aggregation that fails (thread listing, message
\* fetch, sender resolution) changes no gauge, keeps every cache entry and
\* gives the failing thread none; before the publication no step of the
\* aggregation changes a gauge.
C20_SendersAllOrNothing ==
    [][ ( /\ pc \in {"list_threads", "thread"}
          /\ ~PublishStep )
        => /\ gauge_collection' = gauge_collection
           /\ \A t \in DOMAIN THREAD_SENDER_CACHE :
                 /\ t \in DOMAIN THREAD_SENDER_CACHE'
                 /\ THREAD_SENDER_CACHE'[t] = THREAD_SENDER_CACHE[t]
           /\ (pc = "thread" /\ pc' = "label") =>
                 threads[threadIdx] \notin DOMAIN THREAD_SENDER_CACHE' ]_vars

\* the fetch of t2 failed after t1 was cached: no sender gauge for L1
C20_Witness ==
    /\ pc = "label"
    /\ labelIdx = 2
    /\ labels[1] = "L1"
    /\ Len(calls) = 1
    /\ calls[1].op = "threads.get"
    /\ calls[1].id = "t2"
    /\ calls[1].res.kind = "error"
    /\ DOMAIN THREAD_SENDER_CACHE = {"t1"}
    /\ SenderName("L1") \notin DOMAIN gauge_collection

====
